---- MODULE Spec2Model ----
(***************************************************************************)
(* Model of the HybridRAG search path:                                     *)
(*   RAGOrchestrator.search -> HybridSearch.search ->                      *)
(*   InMemoryVectorStore.search (AzureEmbedder.embed_text, cosine          *)
(*   similarity, argsort) -> normalisation -> _keyword_search ->           *)
(*   _combine_results -> _rerank -> truncation -> ResultEnricher,          *)
(* together with InMemoryVectorStore.add_chunks / delete_all.              *)
(*                                                                         *)
(* Text is a sequence of one-character strings.  Python floats are         *)
(* modelled as exact rationals <<numerator, denominator>>.                 *)
(***************************************************************************)
EXTENDS Integers, Sequences, FiniteSets, TLC

(***************************************************************************)
(* Rational arithmetic (stands for Python float arithmetic).               *)
(***************************************************************************)
Abs(x) ==
  IF x < 0 THEN -x ELSE x

RECURSIVE GCD(_, _)
GCD(a, b) ==
  IF b = 0 THEN a ELSE GCD(b, a % b)

Rat(n, d) ==
  LET g == GCD(Abs(n), Abs(d))
      s == IF d < 0 THEN -1 ELSE 1
  IN  IF n = 0 THEN <<0, 1>> ELSE <<(s * n) \div g, (s * d) \div g>>

\* sums and comparisons go through the least common denominator, which
\* keeps the intermediate products small
RAdd(x, y) ==
  LET g == GCD(x[2], y[2])
  IN  Rat(x[1] * (y[2] \div g) + y[1] * (x[2] \div g), x[2] * (y[2] \div g))

RSub(x, y) ==
  LET g == GCD(x[2], y[2])
  IN  Rat(x[1] * (y[2] \div g) - y[1] * (x[2] \div g), x[2] * (y[2] \div g))

RMul(x, y) ==
  Rat(x[1] * y[1], x[2] * y[2])

RDiv(x, y) ==
  Rat(x[1] * y[2], x[2] * y[1])

RLt(x, y) ==
  LET g == GCD(x[2], y[2])
  IN  x[1] * (y[2] \div g) < y[1] * (x[2] \div g)

RLe(x, y) ==
  LET g == GCD(x[2], y[2])
  IN  x[1] * (y[2] \div g) <= y[1] * (x[2] \div g)

RMin(x, y) ==
  IF RLe(x, y) THEN x ELSE y

Zero ==
  <<0, 1>>

One ==
  <<1, 1>>

(***************************************************************************)
(* Python str operations on sequences of characters.                       *)
(***************************************************************************)
UpperChars ==
  <<"A","B","C","D","E","F","G","H","I","J","K","L","M",
    "N","O","P","Q","R","S","T","U","V","W","X","Y","Z">>

LowerChars ==
  <<"a","b","c","d","e","f","g","h","i","j","k","l","m",
    "n","o","p","q","r","s","t","u","v","w","x","y","z">>

Digits ==
  {"0","1","2","3","4","5","6","7","8","9"}

Whitespace ==
  {" ", "\t", "\n"}

LowerChar(c) ==
  IF \E i \in 1..26 : UpperChars[i] = c
  THEN LowerChars[CHOOSE i \in 1..26 : UpperChars[i] = c]
  ELSE c

\* str.lower()
Lower(s) ==
  [i \in 1..Len(s) |-> LowerChar(s[i])]

\* \w of the re module (ASCII letters, digits, underscore)
IsWordChar(c) ==
  \/ \E i \in 1..26 : UpperChars[i] = c \/ LowerChars[i] = c
  \/ c \in Digits
  \/ c = "_"

\* t occurs in s at the 1-based position i
MatchAt(s, t, i) ==
  /\ i >= 1
  /\ i + Len(t) - 1 <= Len(s)
  /\ \A k \in 1..Len(t) : s[i + k - 1] = t[k]

\* t in s
Contains(s, t) ==
  \E i \in 1..(Len(s) + 1) : MatchAt(s, t, i)

RECURSIVE CountFrom(_, _, _)
CountFrom(s, t, i) ==
  IF i + Len(t) - 1 > Len(s) THEN 0
  ELSE IF MatchAt(s, t, i) THEN 1 + CountFrom(s, t, i + Len(t))
  ELSE CountFrom(s, t, i + 1)

\* str.count(t): non-overlapping occurrences, t non-empty
Count(s, t) ==
  CountFrom(s, t, 1)

\* str.find(t): 0-based offset of the first occurrence, -1 if none
Find(s, t) ==
  IF Contains(s, t)
  THEN (CHOOSE i \in 1..(Len(s) + 1) :
          /\ MatchAt(s, t, i)
          /\ \A j \in 1..(i - 1) : ~MatchAt(s, t, j)) - 1
  ELSE -1

\* str.strip() = "" : the text is empty or whitespace only
IsBlank(s) ==
  \A i \in 1..Len(s) : s[i] \in Whitespace

RECURSIVE SplitFrom(_, _, _)
SplitFrom(s, i, cur) ==
  IF i > Len(s) THEN (IF cur = <<>> THEN <<>> ELSE <<cur>>)
  ELSE IF s[i] \in Whitespace
       THEN (IF cur = <<>> THEN <<>> ELSE <<cur>>) \o SplitFrom(s, i + 1, <<>>)
       ELSE SplitFrom(s, i + 1, Append(cur, s[i]))

\* str.split(): the whitespace-delimited tokens, in order
Split(s) ==
  SplitFrom(s, 1, <<>>)

Range(f) ==
  {f[i] : i \in DOMAIN f}

\* seq[:k] with Python's treatment of a negative k
SliceTo(seq, k) ==
  LET n == IF k >= 0
           THEN (IF k < Len(seq) THEN k ELSE Len(seq))
           ELSE (IF Len(seq) + k > 0 THEN Len(seq) + k ELSE 0)
  IN  SubSeq(seq, 1, n)

Reverse(seq) ==
  [i \in 1..Len(seq) |-> seq[Len(seq) + 1 - i]]

(***************************************************************************)
(* The modelled world: texts, chunk objects, queries, site files.          *)
(***************************************************************************)
T_cat == <<"c","a","t">>
T_dog == <<"d","o","g">>
T_this == <<"t","h","i","s">>
T_site == <<"s","i","t","e">>
T_pdf == <<"p","d","f">>
T_dotpdf == <<".","p","d","f">>
T_sample == <<"s","a","m","p","l","e">>
T_sample3pp == <<"s","a","m","p","l","e","-","3","p","p">>
T_sp == <<" ">>

\* "Cat cat cat cat cat"
T_cat5 == <<"C","a","t">> \o T_sp \o T_cat \o T_sp \o T_cat \o T_sp \o T_cat \o T_sp \o T_cat
\* "a dog"
T_adog == <<"a">> \o T_sp \o T_dog
\* "the cat"
T_thecat == <<"t","h","e">> \o T_sp \o T_cat
\* "cat.txt"
T_cattxt == T_cat \o <<".","t","x","t">>
\* "x.io"
T_xio == <<"x",".","i","o">>
\* "This dog"
T_thisdog == <<"T","h","i","s">> \o T_sp \o T_dog
\* "  "
T_blank == <<" "," ">>
T_pet == <<"p","e","t">>
\* "sample pdf"
T_samplepdf == T_sample \o T_sp \o T_pdf
\* "sample-3pp.pdf sample-3pp.pdf pdf"
T_samplerefs ==
  T_sample3pp \o T_dotpdf \o T_sp \o T_sample3pp \o T_dotpdf \o T_sp \o T_pdf
\* "website"
T_website == <<"w","e","b">> \o T_site
\* "Download sample-3pp.pdf here"
T_download ==
  <<"D","o","w","n","l","o","a","d">> \o T_sp \o T_sample3pp \o T_dotpdf
                                      \o T_sp \o <<"h","e","r","e">>
T_a == <<"a">>
\* "aaaa.pdf"
T_aaaapdf == <<"a","a","a","a">> \o T_dotpdf
\* "aaaa.pdf bbbb.pdf cccc.pdf dddd.pdf"
T_fourpdfs ==
  T_aaaapdf \o T_sp \o <<"b","b","b","b">> \o T_dotpdf \o T_sp
            \o <<"c","c","c","c">> \o T_dotpdf \o T_sp \o <<"d","d","d","d">> \o T_dotpdf

\* A metadata value: a str, a non-str object (an int), or a missing key
Str(s) ==
  [t |-> "str", s |-> s]

NonStr ==
  [t |-> "int", s |-> <<>>]

Missing ==
  [t |-> "none", s |-> <<>>]

\* bool(value) of a metadata value
Truthy(v) ==
  \/ v.t = "int"
  \/ v.t = "str" /\ v.s # <<>>

\* Chunk objects (Chunk(content, metadata, chunk_index)); the ids stand for id(chunk)
ChunkIds ==
  1..11

ChunkContent(c) ==
  CASE c = 1 -> T_cat5
    [] c = 2 -> T_adog
    [] c = 3 -> T_adog
    [] c = 4 -> T_thecat
    [] c = 5 -> T_dog
    [] c = 6 -> T_pet
    [] c = 7 -> T_pet
    [] c = 8 -> T_fourpdfs
    [] c = 9 -> T_download
    [] c = 10 -> T_blank
    [] c = 11 -> T_samplerefs

\* metadata["file_name"]
ChunkFileName(c) ==
  CASE c = 1 -> Str(T_cattxt)
    [] c = 5 -> NonStr
    [] c = 6 -> Str(T_cattxt)
    [] c = 8 -> Str(T_aaaapdf)
    [] c = 11 -> Str(T_sample3pp \o T_dotpdf)
    [] OTHER -> Missing

\* metadata["url"]
ChunkUrl(c) ==
  CASE c = 1 -> Str(T_xio)
    [] c = 4 -> Str(T_xio)
    [] c = 7 -> Str(T_xio)
    [] OTHER -> Missing

\* metadata["site_common"] is a non-empty dict naming the files of the site
ChunkSiteCommon(c) ==
  c = 4

\* the site's metadata file lists navigation links
SiteHasNavLinks ==
  TRUE

\* The queries issued
Queries ==
  {T_cat, T_thisdog, T_blank}

\* The batches handed to add_chunks
Batches ==
  {<<1, 2, 3, 4>>, <<5>>}

\* The queries and batches of the runs that exercise keyword scoring and fusion
ScoringQueries ==
  {T_cat, T_pdf, T_a, T_samplepdf, T_website}

ScoringBatches ==
  {<<6, 7, 9>>, <<8, 5>>}

(***************************************************************************)
(* The embedding provider (Azure OpenAI behind AzureEmbedder): a fixed     *)
(* function from text to a vector of norm 5, so that cosine similarity     *)
(* is the dot product over 25.                                             *)
(***************************************************************************)
ProviderEmbed(text) ==
  CASE text = T_cat     -> <<5, 0>>
    [] text = T_thisdog -> <<0, 5>>
    [] text = T_cat5    -> <<4, 3>>
    [] text = T_adog    -> <<3, 4>>
    [] text = T_thecat  -> <<5, 0>>
    [] text = T_dog     -> <<0, 5>>
    [] text = T_pdf     -> <<5, 0>>
    [] text = T_a       -> <<3, 4>>
    [] text = T_pet     -> <<3, 4>>
    [] text = T_fourpdfs -> <<4, 3>>
    [] text = T_samplepdf -> <<3, 4>>
    [] text = T_website  -> <<3, 4>>
    [] text = T_download -> <<0, 5>>
    [] OTHER            -> <<-5, 0>>

\* AzureEmbedder.embed_texts: blank texts are filtered out before embedding
EmbedTexts(texts) ==
  LET valid == SelectSeq(texts, LAMBDA t : ~IsBlank(t))
  IN  [i \in 1..Len(valid) |-> ProviderEmbed(valid[i])]

\* sklearn cosine_similarity of two vectors
CosineSimilarity(u, v) ==
  Rat(u[1] * v[1] + u[2] * v[2], 25)

(***************************************************************************)
(* Stable sorts of sequences of records with a rational field "key".       *)
(***************************************************************************)
RECURSIVE InsertAsc(_, _)
InsertAsc(sorted, e) ==
  IF sorted = <<>> THEN <<e>>
  ELSE IF RLe(sorted[1].key, e.key)
       THEN <<sorted[1]>> \o InsertAsc(Tail(sorted), e)
       ELSE <<e>> \o sorted

RECURSIVE SortAscFrom(_, _, _)
SortAscFrom(seq, i, acc) ==
  IF i > Len(seq) THEN acc ELSE SortAscFrom(seq, i + 1, InsertAsc(acc, seq[i]))

\* np.argsort on fewer than 17 elements: insertion sort, ascending, stable
StableSortAsc(seq) ==
  SortAscFrom(seq, 1, <<>>)

RECURSIVE InsertDesc(_, _)
InsertDesc(sorted, e) ==
  IF sorted = <<>> THEN <<e>>
  ELSE IF RLe(e.key, sorted[1].key)
       THEN <<sorted[1]>> \o InsertDesc(Tail(sorted), e)
       ELSE <<e>> \o sorted

RECURSIVE SortDescFrom(_, _, _)
SortDescFrom(seq, i, acc) ==
  IF i > Len(seq) THEN acc ELSE SortDescFrom(seq, i + 1, InsertDesc(acc, seq[i]))

\* an ascending sort followed by a reversal: descending, equal keys reversed
UnstableSortDesc(seq) ==
  Reverse(StableSortAsc(seq))

\* list.sort(key=..., reverse=True): descending, equal keys keep their order
StableSortDesc(seq) ==
  SortDescFrom(seq, 1, <<>>)

\* dict assignment d[k] = v
DictSet(d, k, v) ==
  [x \in DOMAIN d \cup {k} |-> IF x = k THEN v ELSE d[x]]

\* dict.get(k, default)
DictGet(d, k, default) ==
  IF k \in DOMAIN d THEN d[k] ELSE default

EmptyDict ==
  [x \in {} |-> Zero]

(***************************************************************************)
(* InMemoryVectorStore.search after the query has been embedded.           *)
(***************************************************************************)
ArgsortDesc(similarities) ==
  LET keyed  == [i \in 1..Len(similarities) |-> [key |-> similarities[i], v |-> i]]
      sorted == Reverse(StableSortAsc(keyed))
  IN  [i \in 1..Len(sorted) |-> sorted[i].v]

StoreSearch(query_vector, store_chunks, store_vectors, top_k) ==
  LET similarities == [i \in 1..Len(store_vectors) |->
                         CosineSimilarity(query_vector, store_vectors[i])]
      top_indices  == SliceTo(ArgsortDesc(similarities), top_k)
      positive     == SelectSeq(top_indices, LAMBDA idx : RLt(Zero, similarities[idx]))
  IN  [i \in 1..Len(positive) |->
         [chunk    |-> store_chunks[positive[i]],
          score    |-> similarities[positive[i]],
          metadata |-> [similarity |-> similarities[positive[i]]]]]

(***************************************************************************)
(* HybridSearch.search, lines 25-32: min-max normalisation of the pool.    *)
(***************************************************************************)
RECURSIVE MaxScoreFrom(_, _, _)
MaxScoreFrom(results, i, best) ==
  IF i > Len(results) THEN best
  ELSE MaxScoreFrom(results, i + 1,
                    IF RLt(best, results[i].score) THEN results[i].score ELSE best)

RECURSIVE MinScoreFrom(_, _, _)
MinScoreFrom(results, i, best) ==
  IF i > Len(results) THEN best
  ELSE MinScoreFrom(results, i + 1,
                    IF RLt(results[i].score, best) THEN results[i].score ELSE best)

MaxScore(results) ==
  MaxScoreFrom(results, 2, results[1].score)

\* the scores measured from zero, not from the lowest of the pool
MinScoreZero(results) ==
  Zero

MinScore(results) ==
  MinScoreFrom(results, 2, results[1].score)

ScoreRange(max_score, min_score) ==
  IF max_score # min_score THEN RSub(max_score, min_score) ELSE One

\* the minimum not subtracted
NormalizedScoreUnshifted(score, min_score, score_range) ==
  RDiv(score, score_range)

NormalizedScore(score, min_score, score_range) ==
  RDiv(RSub(score, min_score), score_range)

\* the normalised value stored over result.score
NormalizeOverwritingScore(semantic_results) ==
  IF semantic_results # <<>>
  THEN LET max_score   == MaxScore(semantic_results)
           min_score   == MinScore(semantic_results)
           score_range == ScoreRange(max_score, min_score)
       IN  [i \in 1..Len(semantic_results) |->
              [semantic_results[i] EXCEPT
                 !.score = NormalizedScore(semantic_results[i].score, min_score, score_range),
                 !.metadata = DictSet(@, "semantic_score",
                                      NormalizedScore(semantic_results[i].score, min_score, score_range))]]
  ELSE semantic_results

Normalize(semantic_results) ==
  IF semantic_results # <<>>
  THEN LET max_score   == MaxScore(semantic_results)
           min_score   == MinScore(semantic_results)
           score_range == ScoreRange(max_score, min_score)
       IN  [i \in 1..Len(semantic_results) |->
              [semantic_results[i] EXCEPT !.metadata =
                 DictSet(@, "semantic_score",
                         NormalizedScore(semantic_results[i].score, min_score, score_range))]]
  ELSE semantic_results

(***************************************************************************)
(* HybridSearch._keyword_search                                            *)
(***************************************************************************)
\* length of the run of [\w\-] characters that starts at position i
RECURSIVE RunLen(_, _)
RunLen(s, i) ==
  IF i <= Len(s) /\ (IsWordChar(s[i]) \/ s[i] = "-")
  THEN 1 + RunLen(s, i + 1)
  ELSE 0

\* re.findall(r'([\w\-]+\.pdf)', s): the run is greedy and "." is not in it,
\* so a match at i is the whole run at i followed by ".pdf"
RECURSIVE FindAllPdfFrom(_, _)
FindAllPdfFrom(s, i) ==
  IF i > Len(s) THEN <<>>
  ELSE LET n == RunLen(s, i)
       IN  IF n >= 1 /\ MatchAt(s, T_dotpdf, i + n)
           THEN <<SubSeq(s, i, i + n + 3)>> \o FindAllPdfFrom(s, i + n + 4)
           ELSE FindAllPdfFrom(s, i + 1)

FindAllPdf(s) ==
  FindAllPdfFrom(s, 1)

\* pdf_ref.replace(".pdf", ""): a match holds ".pdf" only as its suffix
PdfName(pdf_ref) ==
  SubSeq(pdf_ref, 1, Len(pdf_ref) - 4)

\* the length filter dropped: every whitespace token is a term
QueryTermsAnyLength(query) ==
  Range(Split(Lower(query)))

\* query_terms: the lower-cased whitespace tokens longer than one character
QueryTerms(query) ==
  {t \in Range(Split(Lower(query))) : Len(t) > 1}

\* every file name of the content added, not only the first three
PdfNamesOfAll(content) ==
  LET pdf_refs == FindAllPdf(Lower(content))
  IN  {PdfName(pdf_refs[i]) : i \in {j \in 1..Len(pdf_refs) : Len(PdfName(pdf_refs[j])) > 3}}

\* the names added by the scan of one candidate's content
PdfNamesOf(content) ==
  LET pdf_refs == SliceTo(FindAllPdf(Lower(content)), 3)
  IN  {PdfName(pdf_refs[i]) : i \in {j \in 1..Len(pdf_refs) : Len(PdfName(pdf_refs[j])) > 3}}

ExpandedTerms(query, semantic_results) ==
  LET query_lower == Lower(query)
  IN  QueryTerms(query)
      \cup (IF Contains(query_lower, T_sample) THEN {T_sample, T_sample3pp} ELSE {})
      \cup (IF Contains(query_lower, T_pdf)
            THEN {T_pdf} \cup UNION {PdfNamesOf(ChunkContent(semantic_results[i].chunk)) :
                                       i \in 1..Len(semantic_results)}
            ELSE {})

\* metadata_text of one candidate; evaluated only for a candidate on which
\* .lower() does not raise
MetadataText(c) ==
  (IF Truthy(ChunkFileName(c)) THEN T_sp \o Lower(ChunkFileName(c).s) ELSE <<>>)
  \o (IF Truthy(ChunkUrl(c)) THEN T_sp \o Lower(ChunkUrl(c).s) ELSE <<>>)

\* chunk_metadata["file_name"].lower() or chunk_metadata["url"].lower() raises
\* AttributeError: the value is truthy and not a str
Malformed(c) ==
  \/ Truthy(ChunkFileName(c)) /\ ChunkFileName(c).t # "str"
  \/ Truthy(ChunkUrl(c)) /\ ChunkUrl(c).t # "str"

RECURSIVE SumOver(_, _, _)
SumOver(S, f, acc) ==
  IF S = {} THEN acc
  ELSE LET x == CHOOSE y \in S : TRUE
       IN  SumOver(S \ {x}, f, acc + f[x])

MetadataBoostCap ==
  <<3, 10>>

\* keyword_score of one candidate against the expanded term set
\* the score without its presence part
KeywordScoreNoPresence(c, terms) ==
  LET content_lower == Lower(ChunkContent(c))
      metadata_text == MetadataText(c)
      content_count == [t \in terms |-> Count(content_lower, t)]
      meta_count    == [t \in terms |-> IF metadata_text # <<>> THEN Count(metadata_text, t) ELSE 0]
      count         == [t \in terms |-> content_count[t] + meta_count[t]]
      total_term_count == SumOver(terms, count, 0)
      metadata_matches == Cardinality({t \in terms : count[t] > 0 /\ meta_count[t] > 0})
      n                == Cardinality(terms)
  IN  RAdd(RMul(<<3, 10>>, RMin(Rat(total_term_count, n * 5), One)),
           RMin(Rat(metadata_matches, n), MetadataBoostCap))

KeywordScore(c, terms) ==
  LET content_lower == Lower(ChunkContent(c))
      metadata_text == MetadataText(c)
      content_count == [t \in terms |-> Count(content_lower, t)]
      meta_count    == [t \in terms |-> IF metadata_text # <<>> THEN Count(metadata_text, t) ELSE 0]
      count         == [t \in terms |-> content_count[t] + meta_count[t]]
      term_matches     == Cardinality({t \in terms : count[t] > 0})
      total_term_count == SumOver(terms, count, 0)
      metadata_matches == Cardinality({t \in terms : count[t] > 0 /\ meta_count[t] > 0})
      n                == Cardinality(terms)
  IN  IF term_matches > 0
      THEN LET presence_score  == Rat(term_matches, n)
               frequency_score == RMin(Rat(total_term_count, n * 5), One)
               metadata_boost  == RMin(Rat(metadata_matches, n), MetadataBoostCap)
           IN  RAdd(RAdd(RMul(<<1, 2>>, presence_score), RMul(<<3, 10>>, frequency_score)),
                    metadata_boost)
      ELSE Zero

\* The outcome of _keyword_search: the dict of scores keyed by id(chunk), or
\* an AttributeError raised out of the scoring loop
KeywordSearch(query, semantic_results) ==
  LET ids == {semantic_results[i].chunk : i \in 1..Len(semantic_results)}
  IN  IF IsBlank(Lower(query)) THEN [raised |-> FALSE, scores |-> EmptyDict]
      ELSE IF QueryTerms(query) = {} THEN [raised |-> FALSE, scores |-> EmptyDict]
      ELSE IF \E c \in ids : Malformed(c) THEN [raised |-> TRUE, scores |-> EmptyDict]
      ELSE [raised |-> FALSE,
            scores |-> [c \in ids |-> KeywordScore(c, ExpandedTerms(query, semantic_results))]]

(***************************************************************************)
(* HybridSearch._combine_results and HybridSearch._rerank                  *)
(***************************************************************************)
\* results.sort(key=lambda x: x.metadata.get("combined_score", 0.0), reverse=True)
SortByCombinedScore(results) ==
  LET keyed  == [i \in 1..Len(results) |->
                   [key |-> DictGet(results[i].metadata, "combined_score", Zero),
                    v   |-> results[i]]]
      sorted == StableSortDesc(keyed)
  IN  [i \in 1..Len(sorted) |-> sorted[i].v]

\* the weights rescaled to sum to 1 before use
CombinedScoreRescaled(config, semantic_score, keyword_score) ==
  RDiv(RAdd(RMul(config.semantic_weight, semantic_score),
            RMul(config.keyword_weight, keyword_score)),
       RAdd(config.semantic_weight, config.keyword_weight))

CombinedScore(config, semantic_score, keyword_score) ==
  RAdd(RMul(config.semantic_weight, semantic_score),
       RMul(config.keyword_weight, keyword_score))

\* fusion that keeps only the candidates with a keyword match
CombineResultsMatchedOnly(config, semantic_results, keyword_scores) ==
  LET matched ==
        SelectSeq(semantic_results,
                  LAMBDA result : DictGet(keyword_scores, result.chunk, Zero) # Zero)
      combined ==
        [i \in 1..Len(matched) |->
           LET result         == matched[i]
               semantic_score == DictGet(result.metadata, "semantic_score", result.score)
               keyword_score  == DictGet(keyword_scores, result.chunk, Zero)
           IN  [result EXCEPT !.metadata =
                  DictSet(DictSet(@, "combined_score",
                                  CombinedScore(config, semantic_score, keyword_score)),
                          "keyword_score", keyword_score)]]
  IN  SortByCombinedScore(combined)

CombineResults(config, semantic_results, keyword_scores) ==
  LET combined ==
        [i \in 1..Len(semantic_results) |->
           LET result         == semantic_results[i]
               semantic_score == DictGet(result.metadata, "semantic_score", result.score)
               keyword_score  == DictGet(keyword_scores, result.chunk, Zero)
           IN  [result EXCEPT !.metadata =
                  DictSet(DictSet(@, "combined_score",
                                  CombinedScore(config, semantic_score, keyword_score)),
                          "keyword_score", keyword_score)]]
  IN  SortByCombinedScore(combined)

RECURSIVE RSumOver(_, _, _)
RSumOver(S, f, acc) ==
  IF S = {} THEN acc
  ELSE LET x == CHOOSE y \in S : TRUE
       IN  RSumOver(S \ {x}, f, RAdd(acc, f[x]))

\* position_boost of one content: 1/(1 + pos/100) for every term found
PositionBoost(content_lower, query_terms) ==
  LET boost == [t \in query_terms |->
                  IF Find(content_lower, t) # -1
                  THEN Rat(100, 100 + Find(content_lower, t))
                  ELSE Zero]
  IN  RSumOver(query_terms, boost, Zero)

IsSiteQuery(query) ==
  Contains(Lower(query), T_site) \/ Contains(Lower(query), T_this)

\* chunk_metadata.get("site_common") or .get("navigation_links") or .get("url");
\* nav is the set of chunks whose metadata holds a non-empty navigation_links
HasSiteContext(c, nav) ==
  ChunkSiteCommon(c) \/ c \in nav \/ Truthy(ChunkUrl(c))

\* the site-query boost added on top of the base boost
SiteContextBoostSummed(has_site_context, is_site_query) ==
  IF has_site_context
  THEN (IF is_site_query THEN RAdd(<<3, 20>>, <<1, 4>>) ELSE <<3, 20>>)
  ELSE Zero

SiteContextBoost(has_site_context, is_site_query) ==
  IF has_site_context
  THEN (IF is_site_query THEN <<1, 4>> ELSE <<3, 20>>)
  ELSE Zero

Rerank(results, query, nav) ==
  LET query_terms   == Range(Split(Lower(query)))
      is_site_query == IsSiteQuery(query)
      boosted ==
        [i \in 1..Len(results) |->
           LET result        == results[i]
               content_lower == Lower(ChunkContent(result.chunk))
               position_boost     == PositionBoost(content_lower, query_terms)
               site_context_boost == SiteContextBoost(HasSiteContext(result.chunk, nav),
                                                      is_site_query)
               current_score == DictGet(result.metadata, "combined_score", Zero)
           IN  [result EXCEPT !.metadata =
                  DictSet(@, "combined_score",
                          RAdd(RAdd(current_score, RMul(position_boost, <<1, 10>>)),
                               site_context_boost))]]
  IN  SortByCombinedScore(boosted)

(***************************************************************************)
(* ResultEnricher.enrich_results with SiteContext.load_site_context        *)
(***************************************************************************)
\* load_site_context returns a non-empty context: the chunk's metadata has a
\* site_common dict (its header_file gives the domain prefix)
HasSiteCtx(c) ==
  ChunkSiteCommon(c)

\* navigation links written on every result, site context or not
EnrichedChunksUnguarded(results) ==
  {results[i].chunk : i \in 1..Len(results)}

\* the chunks of the results that get metadata["navigation_links"] written
EnrichedChunks(results) ==
  {results[i].chunk : i \in {j \in 1..Len(results) :
                               HasSiteCtx(results[j].chunk) /\ SiteHasNavLinks}}

\* the chunks of the results that get metadata["related_pages"] written
RelatedChunks(results) ==
  {c \in EnrichedChunks(results) : Truthy(ChunkUrl(c))}

(***************************************************************************)
(* State                                                                   *)
(***************************************************************************)
MaxTopK == 2
MaxStoreOps == 2

Calls ==
  {1, 2}

Weights ==
  {<<(<<7, 10>>), (<<3, 10>>)>>}

Configs ==
  {[top_k |-> k, rerank |-> r, semantic_weight |-> w[1], keyword_weight |-> w[2]] :
     k \in (-1)..MaxTopK, r \in BOOLEAN, w \in Weights}

\* caller-supplied weights: the defaults, a pair that sums to 2, a pair with
\* a small keyword weight
ScoringWeights ==
  {<<(<<7, 10>>), (<<3, 10>>)>>, <<One, One>>, <<(<<7, 10>>), (<<15, 86>>)>>}

ScoringConfigs ==
  {[top_k |-> k, rerank |-> r, semantic_weight |-> w[1], keyword_weight |-> w[2]] :
     k \in 1..MaxTopK, r \in BOOLEAN, w \in ScoringWeights}

(***************************************************************************)
(* Ingestion: FixedChunker, DocumentLoaderFactory, QdrantVectorStore.       *)
(***************************************************************************)
\* seq[start:end] with Python's treatment of negative and large indices
Slice(seq, start, end) ==
  LET n      == Len(seq)
      idx(k) == IF k < 0
                THEN (IF n + k > 0 THEN n + k ELSE 0)
                ELSE (IF k < n THEN k ELSE n)
  IN  SubSeq(seq, idx(start) + 1, idx(end))

DefaultChunkSize ==
  1000

DefaultChunkOverlap ==
  200

\* FixedChunker() with the defaults of __init__, chunk not yet called
ChunkerInit ==
  [chunk_size |-> DefaultChunkSize, chunk_overlap |-> DefaultChunkOverlap,
   pc |-> "idle", content |-> <<>>, start |-> 0, idx |-> 0, chunks |-> <<>>]

MaxChunkSize ==
  3

MaxChunkOverlap ==
  3

MaxDocLen ==
  4

\* the loop of chunk is followed for at most MaxChunks iterations
MaxChunks ==
  4

\* the loaders DocumentLoaderFactory registers, in order
DefaultLoaders ==
  <<"MarkdownLoader", "JsonLoader", "TextLoader", "HtmlLoader", "RawHtmlLoader">>

\* the 1-based position of the last occurrence of character ch in s, 0 if none
LastIndexOf(s, ch) ==
  IF \E i \in 1..Len(s) : s[i] = ch
  THEN CHOOSE i \in 1..Len(s) : s[i] = ch /\ \A j \in (i + 1)..Len(s) : s[j] # ch
  ELSE 0

\* Path.suffix: the last dot-separated part of the name, with its dot
PathSuffix(path) ==
  LET name == SubSeq(path, LastIndexOf(path, "/") + 1, Len(path))
      i    == LastIndexOf(name, ".")
  IN  IF i > 1 /\ i < Len(name) THEN SubSeq(name, i, Len(name)) ELSE <<>>

T_dottxt == <<".","t","x","t">>
T_processed == <<"p","r","o","c","e","s","s","e","d">>
T_rawhtml == <<"r","a","w","_","h","t","m","l">>

\* loader.can_load(file_path) of each loader class
CanLoad(loader, file_path) ==
  LET suffix == PathSuffix(file_path)
  IN  CASE loader = "MarkdownLoader" -> Lower(suffix) \in {<<".","m","d">>, <<".","m","a","r","k","d","o","w","n">>}
        [] loader = "JsonLoader"     -> Lower(suffix) = <<".","j","s","o","n">>
        [] loader = "TextLoader"     -> Lower(suffix) \in {T_dottxt, <<".","t","e","x","t">>}
        [] loader = "HtmlLoader"     -> suffix = T_dottxt /\ Contains(file_path, T_processed)
        [] loader = "RawHtmlLoader"  -> suffix \in {<<".","h","t","m","l">>, <<".","h","t","m">>} /\ Contains(file_path, T_rawhtml)
        [] loader = "PdfLoader"      -> Lower(suffix) = T_dotpdf

\* get_loader: the first loader of the list that accepts the path, or the
\* ValueError raised when none does
GetLoader(loaders, file_path) ==
  IF \E i \in 1..Len(loaders) : CanLoad(loaders[i], file_path)
  THEN loaders[CHOOSE i \in 1..Len(loaders) :
                 /\ CanLoad(loaders[i], file_path)
                 /\ \A j \in 1..(i - 1) : ~CanLoad(loaders[j], file_path)]
  ELSE "ValueError"

\* the files of the data directory
FilePaths ==
  {T_processed \o <<"/">> \o T_cattxt,
   T_cattxt,
   <<"C","A","T",".","T","X","T">>,
   <<"a">> \o <<".","m","d">>,
   <<"a">> \o <<".","j","s","o","n">>,
   T_rawhtml \o <<"/">> \o <<"a">> \o <<".","h","t","m","l">>,
   <<"a">> \o <<".","h","t","m","l">>,
   T_aaaapdf}

\* load_documents is called with at most MaxPaths paths
MaxPaths ==
  2

\* DocumentLoaderFactory() as constructed, load_documents not yet called
FactoryInit ==
  [loaders |-> DefaultLoaders, pc |-> "idle", file_paths |-> <<>>, next |-> 1,
   selected |-> <<>>, documents |-> <<>>, failed_count |-> 0]

\* the upload batch size of the model (the source uploads 100 points a batch)
BatchSize ==
  2

\* add_chunks prepares at most MaxPoints points
MaxPoints ==
  5

\* QdrantVectorStore with no add_chunks call made
QdrantInit ==
  [pc |-> "idle", points |-> 0, i |-> 0, uploaded_count |-> 0, failed_batches |-> 0,
   batch_upserts |-> <<>>, point_upserts |-> <<>>, counted |-> <<>>, failed |-> {}]

\* the server answers with at most MaxHits hits
MaxHits ==
  2

\* what client.search may answer: hits of distinct points of the collection
\* (chunks 7, 9 and 11) with the similarities 0.55 and 0.5, best first
QdrantAnswers ==
  {hits \in UNION {[1..n -> [chunk : {7, 9, 11}, score : {<<11, 20>>, <<1, 2>>}]] : n \in 0..MaxHits} :
     /\ \A i, j \in 1..Len(hits) : i < j => hits[i].chunk # hits[j].chunk
     /\ \A i, j \in 1..Len(hits) : i < j => RLe(hits[j].score, hits[i].score)}

VARIABLES
  chunker,           \* the FixedChunker and the locals of its chunk call
  factory,           \* the DocumentLoaderFactory and the locals of load_documents
  qdrant,            \* the locals of QdrantVectorStore.add_chunks
  config,            \* HybridSearch.config
  chunks,            \* InMemoryVectorStore.chunks (chunk objects, by id)
  vectors,           \* InMemoryVectorStore.vectors
  nav,               \* chunks whose metadata holds navigation_links
  related,           \* chunks whose metadata holds related_pages
  site_cache,        \* SiteContext._cache holds the site's context
  version,           \* number of add_chunks / delete_all calls so far
  pc,                \* position of each invocation of search
  query,             \* its query argument
  enrich,            \* its enrich argument
  query_vector,      \* local of InMemoryVectorStore.search
  semantic_results,  \* locals of HybridSearch.search
  keyword_scores,
  combined_results,
  results,           \* the list the invocation returned
  error,             \* the exception the invocation raised
  embed_calls,       \* calls of embedder.embed_text made by the invocation
  store_calls,       \* calls of vector_store.search made by the invocation
  index_calls,       \* similarity queries run on the index for the invocation
  pool,              \* what the vector store returned to the invocation
  seen,              \* the store (version, chunks) its pool was taken from
  overlapped         \* some invocation was called while another was running

ingestVars ==
  <<chunker, factory, qdrant>>

vars ==
  <<chunker, factory, qdrant, config, chunks, vectors, nav, related, site_cache, version, pc, query, enrich,
    query_vector, semantic_results, keyword_scores, combined_results, results,
    error, embed_calls, store_calls, index_calls, pool, seen, overlapped>>

storeVars ==
  <<chunks, vectors, version>>

siteVars ==
  <<nav, related, site_cache>>

localVars ==
  <<query_vector, semantic_results, keyword_scores, combined_results, results, pool, seen>>

Init ==
  /\ config \in Configs
  /\ chunks = <<>>
  /\ vectors = <<>>
  /\ nav = {}
  /\ related = {}
  /\ site_cache = FALSE
  /\ version = 0
  /\ pc = [c \in Calls |-> "idle"]
  /\ query = [c \in Calls |-> <<>>]
  /\ enrich = [c \in Calls |-> FALSE]
  /\ query_vector = [c \in Calls |-> <<>>]
  /\ semantic_results = [c \in Calls |-> <<>>]
  /\ keyword_scores = [c \in Calls |-> EmptyDict]
  /\ combined_results = [c \in Calls |-> <<>>]
  /\ results = [c \in Calls |-> <<>>]
  /\ error = [c \in Calls |-> "none"]
  /\ embed_calls = [c \in Calls |-> 0]
  /\ store_calls = [c \in Calls |-> 0]
  /\ index_calls = [c \in Calls |-> 0]
  /\ pool = [c \in Calls |-> <<>>]
  /\ seen = [c \in Calls |-> [version |-> 0, chunks |-> <<>>]]
  /\ overlapped = FALSE
  /\ chunker = ChunkerInit
  /\ factory = FactoryInit
  /\ qdrant = QdrantInit

\* HybridSearch constructed with caller-supplied weights
InitScoring ==
  /\ config \in ScoringConfigs
  /\ chunks = <<>>
  /\ vectors = <<>>
  /\ nav = {}
  /\ related = {}
  /\ site_cache = FALSE
  /\ version = 0
  /\ pc = [c \in Calls |-> "idle"]
  /\ query = [c \in Calls |-> <<>>]
  /\ enrich = [c \in Calls |-> FALSE]
  /\ query_vector = [c \in Calls |-> <<>>]
  /\ semantic_results = [c \in Calls |-> <<>>]
  /\ keyword_scores = [c \in Calls |-> EmptyDict]
  /\ combined_results = [c \in Calls |-> <<>>]
  /\ results = [c \in Calls |-> <<>>]
  /\ error = [c \in Calls |-> "none"]
  /\ embed_calls = [c \in Calls |-> 0]
  /\ store_calls = [c \in Calls |-> 0]
  /\ index_calls = [c \in Calls |-> 0]
  /\ pool = [c \in Calls |-> <<>>]
  /\ seen = [c \in Calls |-> [version |-> 0, chunks |-> <<>>]]
  /\ overlapped = FALSE
  /\ chunker = ChunkerInit
  /\ factory = FactoryInit
  /\ qdrant = QdrantInit

\* the buffers kept as attributes of the one HybridSearch object
SharedFrame(c) ==
  1

\* the frame that holds the locals of invocation c
Frame(c) ==
  c

(***************************************************************************)
(* InMemoryVectorStore.add_chunks / delete_all                             *)
(***************************************************************************)
AddChunks(batch) ==
  /\ version < MaxStoreOps
  /\ LET texts      == [i \in 1..Len(batch) |-> ChunkContent(batch[i])]
         embeddings == EmbedTexts(texts)
     IN  /\ chunks' = chunks \o batch
         /\ vectors' = vectors \o embeddings
  /\ version' = version + 1
  /\ UNCHANGED <<ingestVars, config, overlapped, siteVars, pc, query, enrich, localVars, error, embed_calls, store_calls, index_calls>>

DeleteAll ==
  /\ version < MaxStoreOps
  /\ chunks' = <<>>
  /\ vectors' = <<>>
  /\ version' = version + 1
  /\ UNCHANGED <<ingestVars, config, overlapped, siteVars, pc, query, enrich, localVars, error, embed_calls, store_calls, index_calls>>

(***************************************************************************)
(* One invocation of RAGOrchestrator.search(query, enrich), step by step.  *)
(***************************************************************************)
\* an except clause that logs the exception and returns the empty list
RaiseSwallowed(c, exc) ==
  /\ pc' = [pc EXCEPT ![c] = "done"]
  /\ error' = [error EXCEPT ![c] = exc]

\* the failed call made again: the invocation goes back to embedding the query
RaiseRetried(c, exc) ==
  /\ pc' = [pc EXCEPT ![c] = "embed"]
  /\ error' = error

\* An exception raised inside search: nothing catches it, the invocation
\* ends with it and returns nothing
Raise(c, exc) ==
  /\ pc' = [pc EXCEPT ![c] = "error"]
  /\ error' = [error EXCEPT ![c] = exc]

\* RAGOrchestrator.search -> HybridSearch.search -> vector_store.search(query, top_k * 2, embedder);
\* the invocations are numbered in the order in which they are called
Search(c, q, e) ==
  /\ pc[c] = "idle"
  /\ \A d \in Calls : d < c => pc[d] # "idle"
  /\ pc' = [pc EXCEPT ![c] = "embed"]
  /\ query' = [query EXCEPT ![c] = q]
  /\ enrich' = [enrich EXCEPT ![c] = e]
  /\ store_calls' = [store_calls EXCEPT ![c] = @ + 1]
  /\ overlapped' = (overlapped \/ \E d \in Calls \ {c} : pc[d] \notin {"idle", "done", "error"})
  /\ UNCHANGED <<ingestVars, config, storeVars, siteVars, localVars, error, embed_calls, index_calls>>

\* embedder.embed_text(query): ValueError on blank text, else the provider's vector
EmbedText(c) ==
  /\ pc[c] = "embed"
  /\ embed_calls' = [embed_calls EXCEPT ![c] = @ + 1]
  /\ IF IsBlank(query[c])
     THEN /\ Raise(c, "ValueError")
          /\ UNCHANGED query_vector
     ELSE /\ query_vector' = [query_vector EXCEPT ![c] = ProviderEmbed(query[c])]
          /\ pc' = [pc EXCEPT ![c] = "index"]
          /\ UNCHANGED error
  /\ UNCHANGED <<ingestVars, config, overlapped, storeVars, siteVars, query, enrich, semantic_results, keyword_scores,
                 combined_results, results, pool, seen, store_calls, index_calls>>

\* embedder.embed_text(query): the provider call itself fails
EmbedTextFails(c) ==
  /\ pc[c] = "embed"
  /\ ~IsBlank(query[c])
  /\ embed_calls' = [embed_calls EXCEPT ![c] = @ + 1]
  /\ Raise(c, "EmbeddingError")
  /\ UNCHANGED <<ingestVars, config, overlapped, storeVars, siteVars, query, enrich, localVars, store_calls, index_calls>>

\* the pool is not widened: top_k neighbours are requested
FetchSizeExact(top_k) ==
  top_k

\* top_k=self.config.top_k * 2
FetchSize(top_k) ==
  top_k * 2

\* cosine_similarity, argsort and the result list of InMemoryVectorStore.search;
\* cosine_similarity raises ValueError on the empty vector list
IndexQuery(c) ==
  /\ pc[c] = "index"
  /\ index_calls' = [index_calls EXCEPT ![c] = @ + 1]
  /\ IF vectors = <<>>
     THEN /\ Raise(c, "IndexError")
          /\ UNCHANGED <<semantic_results, pool, seen>>
     ELSE LET found == StoreSearch(query_vector[c], chunks, vectors, FetchSize(config.top_k))
          IN  /\ semantic_results' = [semantic_results EXCEPT ![Frame(c)] = found]
              /\ pool' = [pool EXCEPT ![c] = found]
              /\ seen' = [seen EXCEPT ![c] = [version |-> version, chunks |-> chunks]]
              /\ pc' = [pc EXCEPT ![c] = "normalize"]
              /\ UNCHANGED error
  /\ UNCHANGED <<ingestVars, config, overlapped, storeVars, siteVars, query, enrich, query_vector, keyword_scores,
                 combined_results, results, embed_calls, store_calls>>

\* HybridSearch.search lines 25-32
NormalizeScores(c) ==
  /\ pc[c] = "normalize"
  /\ semantic_results' = [semantic_results EXCEPT ![Frame(c)] = Normalize(@)]
  /\ pc' = [pc EXCEPT ![c] = "keyword"]
  /\ UNCHANGED <<ingestVars, config, overlapped, storeVars, siteVars, query, enrich, query_vector, keyword_scores,
                 combined_results, results, pool, seen, error, embed_calls, store_calls, index_calls>>

\* HybridSearch.search line 34
KeywordStep(c) ==
  /\ pc[c] = "keyword"
  /\ LET outcome == KeywordSearch(query[c], semantic_results[Frame(c)])
     IN  IF outcome.raised
         THEN /\ Raise(c, "AttributeError")
              /\ UNCHANGED keyword_scores
         ELSE /\ keyword_scores' = [keyword_scores EXCEPT ![Frame(c)] = outcome.scores]
              /\ pc' = [pc EXCEPT ![c] = "combine"]
              /\ UNCHANGED error
  /\ UNCHANGED <<ingestVars, config, overlapped, storeVars, siteVars, query, enrich, query_vector, semantic_results,
                 combined_results, results, pool, seen, embed_calls, store_calls, index_calls>>

\* HybridSearch.search line 35
CombineStep(c) ==
  /\ pc[c] = "combine"
  /\ combined_results' = [combined_results EXCEPT ![Frame(c)] =
        CombineResults(config, semantic_results[Frame(c)], keyword_scores[Frame(c)])]
  /\ pc' = [pc EXCEPT ![c] = IF config.rerank THEN "rerank" ELSE "truncate"]
  /\ UNCHANGED <<ingestVars, config, overlapped, storeVars, siteVars, query, enrich, query_vector, semantic_results,
                 keyword_scores, results, pool, seen, error, embed_calls, store_calls, index_calls>>

\* HybridSearch.search lines 37-38
RerankStep(c) ==
  /\ pc[c] = "rerank"
  /\ combined_results' = [combined_results EXCEPT ![Frame(c)] = Rerank(@, query[c], nav)]
  /\ pc' = [pc EXCEPT ![c] = "truncate"]
  /\ UNCHANGED <<ingestVars, config, overlapped, storeVars, siteVars, query, enrich, query_vector, semantic_results,
                 keyword_scores, results, pool, seen, error, embed_calls, store_calls, index_calls>>

\* the slice forgotten: the whole fused list is returned
TruncateAll(combined, top_k) ==
  combined

\* combined_results[:self.config.top_k]
Truncate(combined, top_k) ==
  SliceTo(combined, top_k)

\* HybridSearch.search line 40, back in RAGOrchestrator.search
TruncateStep(c) ==
  /\ pc[c] = "truncate"
  /\ results' = [results EXCEPT ![c] = Truncate(combined_results[Frame(c)], config.top_k)]
  /\ pc' = [pc EXCEPT ![c] = IF enrich[c] THEN "enrich" ELSE "done"]
  /\ UNCHANGED <<ingestVars, config, overlapped, storeVars, siteVars, query, enrich, query_vector, semantic_results,
                 keyword_scores, combined_results, pool, seen, error, embed_calls, store_calls, index_calls>>

\* RAGOrchestrator.search lines 334-335: the results keep their order, the
\* chunks' metadata and the site cache are written
EnrichStep(c) ==
  /\ pc[c] = "enrich"
  /\ nav' = nav \cup EnrichedChunks(results[c])
  /\ related' = related \cup RelatedChunks(results[c])
  /\ site_cache' = (site_cache \/ \E i \in 1..Len(results[c]) : HasSiteCtx(results[c][i].chunk))
  /\ pc' = [pc EXCEPT ![c] = "done"]
  /\ UNCHANGED <<ingestVars, config, overlapped, storeVars, query, enrich, localVars, error, embed_calls, store_calls, index_calls>>

\* the steps of HybridSearch.search
HybridStep(c) ==
  \/ EmbedText(c)
  \/ EmbedTextFails(c)
  \/ IndexQuery(c)
  \/ NormalizeScores(c)
  \/ KeywordStep(c)
  \/ CombineStep(c)
  \/ RerankStep(c)
  \/ TruncateStep(c)

\* no invocation is between its call and its return
Quiet ==
  \A c \in Calls : pc[c] \in {"idle", "done", "error"}

\* The program as run by scripts/run_rag.py: one thread, one search at a time
Next ==
  \/ Quiet /\ \E batch \in Batches : AddChunks(batch)
  \/ Quiet /\ DeleteAll
  \/ Quiet /\ \E c \in Calls, q \in Queries, e \in BOOLEAN : Search(c, q, e)
  \/ \E c \in Calls : HybridStep(c)
  \/ \E c \in Calls : EnrichStep(c)

Spec ==
  Init /\ [][Next]_vars

\* no invocation has been made yet
NoneStarted ==
  \A c \in Calls : pc[c] = "idle"

\* HybridSearch.search called on several threads with different queries,
\* interleaved at every step, on a store filled beforehand
NextConc ==
  \/ NoneStarted /\ \E batch \in Batches : AddChunks(batch)
  \/ NoneStarted /\ DeleteAll
  \/ \E c \in Calls, q \in Queries :
       /\ \A d \in Calls \ {c} : pc[d] # "idle" => query[d] # q
       /\ Search(c, q, FALSE)
  \/ \E c \in Calls : HybridStep(c)

SpecConc ==
  Init /\ [][NextConc]_vars

\* InMemoryVectorStore.get_count
GetCount ==
  Len(chunks)

\* InMemoryVectorStore filled and emptied, with chunks of blank content
NextStore ==
  \/ \E batch \in {<<6>>, <<10>>, <<10, 6>>, <<9, 10>>} : AddChunks(batch)
  \/ DeleteAll

SpecStore ==
  Init /\ [][NextStore]_vars

\* One HybridSearch.search on a store filled beforehand, over the queries,
\* documents and weights that exercise keyword scoring and fusion
NextScoring ==
  \/ NoneStarted /\ \E batch \in ScoringBatches : AddChunks(batch)
  \/ NoneStarted /\ DeleteAll
  \/ \E q \in ScoringQueries : Search(1, q, FALSE)
  \/ HybridStep(1)

SpecScoring ==
  InitScoring /\ [][NextScoring]_vars

(***************************************************************************)
(* FixedChunker.chunk, one loop iteration at a time.                       *)
(***************************************************************************)
searchVars ==
  <<config, storeVars, siteVars, pc, query, enrich, localVars, error,
    embed_calls, store_calls, index_calls, overlapped>>

\* ChunkerFactory builds FixedChunker(chunk_size, chunk_overlap) from the
\* ChunkingConfig and calls chunk(document): lines 10-12 and 16-19
ChunkCall(chunk_size, chunk_overlap, content) ==
  /\ chunker.pc = "idle"
  /\ chunker' = [chunk_size |-> chunk_size, chunk_overlap |-> chunk_overlap,
                 pc |-> "loop", content |-> content, start |-> 0, idx |-> 0, chunks |-> <<>>]
  /\ UNCHANGED <<searchVars, factory, qdrant>>

\* one iteration of the while loop, lines 21-41
ChunkIteration ==
  /\ chunker.pc = "loop"
  /\ chunker.start < Len(chunker.content)
  /\ chunker.idx < MaxChunks
  /\ LET end           == chunker.start + chunker.chunk_size
         chunk_content == Slice(chunker.content, chunker.start, end)
     IN  chunker' = [chunker EXCEPT
                       !.chunks = Append(@, [content |-> chunk_content,
                                             start_position |-> chunker.start,
                                             end_position |-> end,
                                             chunk_index |-> chunker.idx]),
                       !.start = end - chunker.chunk_overlap,
                       !.idx = @ + 1]
  /\ UNCHANGED <<searchVars, factory, qdrant>>

\* the loop ends and chunk returns, line 43
ChunkReturn ==
  /\ chunker.pc = "loop"
  /\ ~(chunker.start < Len(chunker.content))
  /\ chunker' = [chunker EXCEPT !.pc = "done"]
  /\ UNCHANGED <<searchVars, factory, qdrant>>

\* chunk_size and chunk_overlap are unvalidated ints of ChunkingConfig, here
\* chunk_size > 0 and chunk_overlap >= 0; the documents are "", "a", "ab", ...
NextChunk ==
  \/ \E chunk_size \in 1..MaxChunkSize, chunk_overlap \in 0..MaxChunkOverlap, n \in 0..MaxDocLen :
       ChunkCall(chunk_size, chunk_overlap, [i \in 1..n |-> LowerChars[i]])
  \/ ChunkIteration
  \/ ChunkReturn

SpecChunk ==
  Init /\ [][NextChunk]_vars

(***************************************************************************)
(* DocumentLoaderFactory.load_documents, one path at a time.               *)
(***************************************************************************)
\* add_loader(PdfLoader())
AddLoader(loader) ==
  /\ factory.pc = "idle"
  /\ \A i \in 1..Len(factory.loaders) : factory.loaders[i] # loader
  /\ factory' = [factory EXCEPT !.loaders = Append(@, loader)]
  /\ UNCHANGED <<searchVars, chunker, qdrant>>

\* load_documents(file_paths): lines 49-50
LoadDocuments(file_paths) ==
  /\ factory.pc = "idle"
  /\ factory' = [factory EXCEPT !.pc = "loop", !.file_paths = file_paths, !.next = 1,
                                 !.selected = <<>>, !.documents = <<>>, !.failed_count = 0]
  /\ UNCHANGED <<searchVars, chunker, qdrant>>

\* one iteration of the for loop, lines 52-64; loaded is what loader.load
\* does with the file: "document", "empty" (no content) or "raises"
LoadOne(loaded) ==
  /\ factory.pc = "loop"
  /\ factory.next <= Len(factory.file_paths)
  /\ LET file_path == factory.file_paths[factory.next]
         loader    == GetLoader(factory.loaders, file_path)
     IN  IF loader = "ValueError"
         THEN /\ loaded = "raises"
              /\ factory' = [factory EXCEPT !.failed_count = @ + 1, !.next = @ + 1]
         ELSE factory' = [factory EXCEPT
                            !.selected = Append(@, [file_path |-> file_path, loader |-> loader]),
                            !.documents = IF loaded = "document"
                                          THEN Append(@, [file_path |-> file_path, loader |-> loader])
                                          ELSE @,
                            !.failed_count = IF loaded = "raises" THEN @ + 1 ELSE @,
                            !.next = @ + 1]
  /\ UNCHANGED <<searchVars, chunker, qdrant>>

\* lines 66-69
LoadReturn ==
  /\ factory.pc = "loop"
  /\ factory.next > Len(factory.file_paths)
  /\ factory' = [factory EXCEPT !.pc = "done"]
  /\ UNCHANGED <<searchVars, chunker, qdrant>>

NextLoad ==
  \/ AddLoader("PdfLoader")
  \/ \E n \in 0..MaxPaths : \E file_paths \in [1..n -> FilePaths] : LoadDocuments(file_paths)
  \/ \E loaded \in {"document", "empty", "raises"} : LoadOne(loaded)
  \/ LoadReturn

SpecLoad ==
  Init /\ [][NextLoad]_vars

(***************************************************************************)
(* QdrantVectorStore.add_chunks: the upload loop, one batch at a time.     *)
(***************************************************************************)
\* batch = points[i:i + batch_size], as the set of its 1-based positions
BatchOf(i, n) ==
  {p \in 1..n : i < p /\ p <= i + BatchSize}

\* the points are prepared, lines 87-145; n is their number
QdrantAddChunks(n) ==
  /\ qdrant.pc = "idle"
  /\ qdrant' = [qdrant EXCEPT !.pc = IF n = 0 THEN "done" ELSE "upload",
                               !.points = n, !.i = 0,
                               !.uploaded_count = 0, !.failed_batches = 0,
                               !.batch_upserts = [p \in 1..n |-> 0],
                               !.point_upserts = [p \in 1..n |-> 0],
                               !.counted = [p \in 1..n |-> 0]]
  /\ UNCHANGED <<searchVars, chunker, factory>>

\* the upsert of the batch succeeds, lines 148-157
UpsertBatch ==
  /\ qdrant.pc = "upload"
  /\ qdrant.i < qdrant.points
  /\ LET batch == BatchOf(qdrant.i, qdrant.points)
     IN  qdrant' = [qdrant EXCEPT
                      !.batch_upserts = [p \in 1..qdrant.points |-> IF p \in batch THEN @[p] + 1 ELSE @[p]],
                      !.counted = [p \in 1..qdrant.points |-> IF p \in batch THEN @[p] + 1 ELSE @[p]],
                      !.uploaded_count = @ + Cardinality(batch),
                      !.i = @ + BatchSize]
  /\ UNCHANGED <<searchVars, chunker, factory>>

\* the upsert of the batch raises and add_chunks gives up
UpsertBatchAborts(accepted) ==
  /\ qdrant.pc = "upload"
  /\ qdrant.i < qdrant.points
  /\ accepted \subseteq BatchOf(qdrant.i, qdrant.points)
  /\ LET batch == BatchOf(qdrant.i, qdrant.points)
     IN  qdrant' = [qdrant EXCEPT
                      !.pc = "done",
                      !.failed_batches = @ + 1,
                      !.failed = @ \cup batch,
                      !.batch_upserts = [p \in 1..qdrant.points |-> IF p \in batch THEN @[p] + 1 ELSE @[p]]]
  /\ UNCHANGED <<searchVars, chunker, factory>>

\* the upsert of the batch raises, lines 158-174: every point of the batch
\* is upserted on its own; accepted holds the points whose upsert succeeds
UpsertBatchFails(accepted) ==
  /\ qdrant.pc = "upload"
  /\ qdrant.i < qdrant.points
  /\ accepted \subseteq BatchOf(qdrant.i, qdrant.points)
  /\ LET batch == BatchOf(qdrant.i, qdrant.points)
     IN  qdrant' = [qdrant EXCEPT
                      !.failed_batches = @ + 1,
                      !.failed = @ \cup batch,
                      !.batch_upserts = [p \in 1..qdrant.points |-> IF p \in batch THEN @[p] + 1 ELSE @[p]],
                      !.point_upserts = [p \in 1..qdrant.points |-> IF p \in batch THEN @[p] + 1 ELSE @[p]],
                      !.counted = [p \in 1..qdrant.points |-> IF p \in accepted THEN @[p] + 1 ELSE @[p]],
                      !.uploaded_count = @ + Cardinality(accepted),
                      !.i = @ + BatchSize]
  /\ UNCHANGED <<searchVars, chunker, factory>>

\* the loop is over, line 176
UploadComplete ==
  /\ qdrant.pc = "upload"
  /\ qdrant.i >= qdrant.points
  /\ qdrant' = [qdrant EXCEPT !.pc = "done"]
  /\ UNCHANGED <<searchVars, chunker, factory>>

NextUpload ==
  \/ \E n \in 0..MaxPoints : QdrantAddChunks(n)
  \/ UpsertBatch
  \/ \E accepted \in SUBSET (1..MaxPoints) : UpsertBatchFails(accepted)
  \/ UploadComplete

SpecUpload ==
  Init /\ [][NextUpload]_vars

(***************************************************************************)
(* HybridSearch.search on a QdrantVectorStore.                             *)
(***************************************************************************)
\* QdrantVectorStore.search lines 188-223: the server answers with at most
\* limit hits, each made a SearchResult
QdrantIndexQuery(c) ==
  /\ pc[c] = "index"
  /\ index_calls' = [index_calls EXCEPT ![c] = @ + 1]
  /\ \E hits \in QdrantAnswers :
       /\ Len(hits) <= FetchSize(config.top_k)
       /\ LET found == [i \in 1..Len(hits) |->
                          [chunk |-> hits[i].chunk, score |-> hits[i].score,
                           metadata |-> [similarity |-> hits[i].score]]]
          IN  /\ semantic_results' = [semantic_results EXCEPT ![Frame(c)] = found]
              /\ pool' = [pool EXCEPT ![c] = found]
  /\ pc' = [pc EXCEPT ![c] = "normalize"]
  /\ UNCHANGED <<ingestVars, config, overlapped, storeVars, siteVars, query, enrich, query_vector,
                 keyword_scores, combined_results, results, error, seen, embed_calls, store_calls>>

NextQdrantSearch ==
  \/ \E q \in {T_samplepdf, T_cat} : Search(1, q, FALSE)
  \/ EmbedText(1)
  \/ EmbedTextFails(1)
  \/ QdrantIndexQuery(1)
  \/ NormalizeScores(1)
  \/ KeywordStep(1)
  \/ CombineStep(1)
  \/ RerankStep(1)
  \/ TruncateStep(1)

SpecQdrantSearch ==
  InitScoring /\ [][NextQdrantSearch]_vars

(***************************************************************************)
(* Properties                                                              *)
(***************************************************************************)
Returned(c) ==
  pc[c] = "done"

\* C1 (as stated): for every non-failing search and every configured top_k,
\* the number of results returned is at most top_k.
C1_AtMostTopK_AnyTopK ==
  \A c \in Calls : pc[c] \in {"enrich", "done"} => Len(results[c]) <= config.top_k

\* C1 (amended): for every non-failing search and every configured top_k >= 0,
\* the number of results returned by HybridSearch.search, and by
\* RAGOrchestrator.search with or without enrichment, is at most top_k.
C1_AtMostTopK ==
  \A c \in Calls :
    pc[c] \in {"enrich", "done"} /\ config.top_k >= 0 => Len(results[c]) <= config.top_k

\* a search that returned after enrichment and whose fused list was longer than top_k
C1_Witness ==
  \E c \in Calls :
    /\ Returned(c)
    /\ enrich[c]
    /\ config.top_k >= 1
    /\ Len(combined_results[c]) > config.top_k
    /\ Len(results[c]) = config.top_k

\* C2: a blank query is rejected with InvalidQuery before any I/O: neither
\* the embedder nor the vector store is called for it.
C2_BlankRejectedBeforeIO ==
  \A c \in Calls :
    pc[c] # "idle" /\ IsBlank(query[c]) =>
      /\ pc[c] = "error"
      /\ error[c] = "InvalidQuery"
      /\ embed_calls[c] = 0
      /\ store_calls[c] = 0

\* the sort key of a result
Key(r) ==
  DictGet(r.metadata, "combined_score", Zero)

\* what identifies a candidate through the stages
Tag(r) ==
  <<r.chunk, r.score, DictGet(r.metadata, "semantic_score", Zero)>>

Tags(list) ==
  [i \in 1..Len(list) |-> Tag(list[i])]

NonIncreasing(list) ==
  \A i \in 1..(Len(list) - 1) : RLe(Key(list[i + 1]), Key(list[i]))

\* post is pre sorted by descending key, candidates of equal key in the
\* order they have in pre
IsStableSortOf(pre, post) ==
  /\ Len(pre) = Len(post)
  /\ NonIncreasing(post)
  /\ \A k \in {Key(post[i]) : i \in 1..Len(post)} :
       LET tagsOfKey == {Tag(post[i]) : i \in {j \in 1..Len(post) : Key(post[j]) = k}}
       IN  Tags(SelectSeq(post, LAMBDA r : Key(r) = k))
             = Tags(SelectSeq(pre, LAMBDA r : Tag(r) \in tagsOfKey))

\* C3: the returned list is in non-increasing order of combined_score, and
\* the sort after fusion and the sort after reranking are stable: candidates
\* of equal combined_score keep the order of the stage before the sort.
C3_StableDescending ==
  [][\A c \in Calls :
       /\ (pc[c] = "combine" /\ pc'[c] # "combine")
            => IsStableSortOf(semantic_results[c], combined_results'[c])
       /\ (pc[c] = "rerank" /\ pc'[c] # "rerank")
            => IsStableSortOf(combined_results[c], combined_results'[c])
       /\ (pc[c] = "truncate" /\ pc'[c] # "truncate")
            => NonIncreasing(results'[c])]_vars

\* a search returned two different candidates of equal combined_score, after reranking
C3_Witness ==
  \E c \in Calls :
    /\ Returned(c)
    /\ config.rerank
    /\ \E i \in 1..(Len(results[c]) - 1) :
         /\ Key(results[c][i]) = Key(results[c][i + 1])
         /\ results[c][i].chunk # results[c][i + 1].chunk

\* C4: when the query embedding or the vector-store query fails, search
\* ends with the error and returns no list; a search that returned had its
\* query embedded and its pool taken from a non-empty store.
C4_FailureAborts ==
  \A c \in Calls :
    /\ error[c] # "none" => pc[c] = "error" /\ results[c] = <<>>
    /\ pc[c] \in {"enrich", "done"} =>
         /\ error[c] = "none"
         /\ ~IsBlank(query[c])
         /\ query_vector[c] # <<>>
         /\ seen[c].chunks # <<>>

\* one search ended with the provider's embedding failure, another with the
\* vector store's failure
C4_Witness ==
  \E c, d \in Calls :
    /\ pc[c] = "error" /\ error[c] = "EmbeddingError" /\ embed_calls[c] = 1
    /\ pc[d] = "error" /\ error[d] = "IndexError" /\ query_vector[d] # <<>>

\* C5: a malformed candidate met during scoring is skipped; search still
\* completes with a ranking of the remaining candidates.
C5_MalformedSkipped ==
  \A c \in Calls :
    (pc[c] \notin {"idle", "embed", "index", "normalize", "keyword"}
       /\ \E i \in 1..Len(pool[c]) : Malformed(pool[c][i].chunk))
    => /\ Returned(c) \/ pc[c] \in {"combine", "rerank", "truncate", "enrich"}
       /\ error[c] = "none"

\* the result of HybridSearch.search for a query on a pool, computed in one piece
SoloResult(q, raw_pool) ==
  LET normalized == Normalize(raw_pool)
      scores     == KeywordSearch(q, normalized).scores
      fused      == CombineResults(config, normalized, scores)
      reranked   == IF config.rerank THEN Rerank(fused, q, {}) ELSE fused
  IN  SliceTo(reranked, config.top_k)

\* C6: two invocations of HybridSearch.search with different queries,
\* interleaved at any step, each return what they would return when run
\* alone on the pool the vector store gave them.
C6_Isolation ==
  \A c \in Calls : Returned(c) => results[c] = SoloResult(query[c], pool[c])

\* two invocations with different queries overlapped and both returned a ranking
C6_Witness ==
  /\ overlapped
  /\ \A c \in Calls : Returned(c) /\ Len(results[c]) >= 2
  /\ query[1] # query[2]

InFlightAfterIndex ==
  {"normalize", "keyword", "combine", "rerank", "truncate", "enrich"}

\* C7: the ordered result depends only on the query, the configuration and
\* the contents of the vector store: two searches with the same query on the
\* same store contents return the same list, the pool of a running search is
\* taken from the store as it is now, and every result is a chunk of that store.
C7_Stateless ==
  /\ \A c, d \in Calls :
       (Returned(c) /\ Returned(d) /\ query[c] = query[d] /\ seen[c] = seen[d])
         => results[c] = results[d]
  /\ \A c \in Calls :
       pc[c] \in InFlightAfterIndex => seen[c] = [version |-> version, chunks |-> chunks]
  /\ \A c \in Calls :
       Returned(c) => \A i \in 1..Len(results[c]) : results[c][i].chunk \in Range(seen[c].chunks)

\* the same query was searched twice on the same store contents, with
\* reranking, and the first search enriched its results in between
C7_Witness ==
  \E c, d \in Calls :
    /\ c # d
    /\ Returned(c) /\ Returned(d)
    /\ query[c] = query[d] /\ seen[c] = seen[d]
    /\ config.rerank
    /\ results[d] # <<>>
    /\ nav # {} /\ site_cache
    /\ Len(results[d]) >= 2

\* C8: every keyword score lies in [0, 1].
C8_KeywordScoreInUnit ==
  \A c \in Calls : \A id \in DOMAIN keyword_scores[c] :
    RLe(Zero, keyword_scores[c][id]) /\ RLe(keyword_scores[c][id], One)

\* the stages at which the pool of an invocation has been normalised
AfterNormalize ==
  {"keyword", "combine", "rerank", "truncate", "enrich", "done"}

PoolScores(c) ==
  {pool[c][i].score : i \in 1..Len(pool[c])}

PoolMax(c) ==
  CHOOSE s \in PoolScores(c) : \A t \in PoolScores(c) : RLe(t, s)

PoolMin(c) ==
  CHOOSE s \in PoolScores(c) : \A t \in PoolScores(c) : RLe(s, t)

SemanticScore(c, i) ==
  semantic_results[c][i].metadata.semantic_score

\* C9: on a pool whose similarities are not all equal, semantic_score is
\* (raw - min)/(max - min): 1 for the best, 0 for the worst, within [0, 1];
\* an empty pool gives an empty result and no error.
C9_MinMaxNormalisation ==
  \A c \in Calls :
    pc[c] \in AfterNormalize =>
      /\ Len(semantic_results[c]) = Len(pool[c])
      /\ pool[c] = <<>> => semantic_results[c] = <<>> /\ (Returned(c) => results[c] = <<>>)
      /\ (pool[c] # <<>> /\ PoolMax(c) # PoolMin(c)) =>
           \A i \in 1..Len(pool[c]) :
             /\ SemanticScore(c, i) =
                  RDiv(RSub(pool[c][i].score, PoolMin(c)), RSub(PoolMax(c), PoolMin(c)))
             /\ RLe(Zero, SemanticScore(c, i)) /\ RLe(SemanticScore(c, i), One)
             /\ pool[c][i].score = PoolMax(c) => SemanticScore(c, i) = One
             /\ pool[c][i].score = PoolMin(c) => SemanticScore(c, i) = Zero

\* a pool of three different similarities was normalised, one score strictly
\* between 0 and 1
C9_Witness ==
  \E c \in Calls :
    /\ pc[c] \in AfterNormalize
    /\ Cardinality(PoolScores(c)) >= 3
    /\ \E i \in 1..Len(pool[c]) :
         RLt(Zero, SemanticScore(c, i)) /\ RLt(SemanticScore(c, i), One)

\* C10: when all similarities of the pool are equal (a single candidate
\* included), every semantic_score is 1.
C10_UniformPoolGivesOne ==
  \A c \in Calls :
    (pc[c] \in AfterNormalize /\ pool[c] # <<>> /\ PoolMax(c) = PoolMin(c))
      => \A i \in 1..Len(pool[c]) : SemanticScore(c, i) = One

\* the invocation is past fusion and its combined_score has not been reranked
Fused(c) ==
  \/ pc[c] = "rerank"
  \/ ~config.rerank /\ pc[c] \in {"truncate", "enrich", "done"}

ScoreGrid ==
  {Zero, <<1, 2>>, <<43, 50>>, One, <<11, 10>>}

\* C11: after fusion every candidate's combined_score is
\* semantic_weight * semantic_score + keyword_weight * keyword_score with the
\* weights as configured (no rescaling when they do not sum to 1), and for
\* non-negative weights the combined score does not decrease when either
\* score alone increases.
C11_WeightedSum ==
  /\ \A c \in Calls : Fused(c) =>
        \A i \in 1..Len(combined_results[c]) :
          LET r  == combined_results[c][i]
              kw == DictGet(keyword_scores[c], r.chunk, Zero)
          IN  /\ r.metadata.keyword_score = kw
              /\ r.metadata.semantic_score = semantic_results[c][
                     CHOOSE j \in 1..Len(semantic_results[c]) :
                       Tag(semantic_results[c][j]) = Tag(r)].metadata.semantic_score
              /\ Key(r) = RAdd(RMul(config.semantic_weight, r.metadata.semantic_score),
                               RMul(config.keyword_weight, kw))
  /\ (RLe(Zero, config.semantic_weight) /\ RLe(Zero, config.keyword_weight)) =>
        \A lo, hi, other \in ScoreGrid :
          RLe(lo, hi) =>
            /\ RLe(CombinedScore(config, lo, other), CombinedScore(config, hi, other))
            /\ RLe(CombinedScore(config, other, lo), CombinedScore(config, other, hi))

\* weights that sum to 2 were used; a fused candidate with semantic_score 1
\* and a positive keyword score has a combined_score above 1
C11_Witness ==
  \E c \in Calls :
    /\ Fused(c)
    /\ RAdd(config.semantic_weight, config.keyword_weight) = <<2, 1>>
    /\ \E i \in 1..Len(combined_results[c]) :
         /\ combined_results[c][i].metadata.semantic_score = One
         /\ RLt(Zero, combined_results[c][i].metadata.keyword_score)
         /\ RLt(One, Key(combined_results[c][i]))

\* the stages of search that follow the vector-store query
ScoringStages ==
  {"normalize", "keyword", "combine", "rerank", "truncate"}

\* C12: an invocation embeds the query exactly once and then queries the
\* index exactly once; a failed embedding or index query ends the invocation
\* and is not made again (after a failed embedding the index is not queried);
\* normalisation, keyword scoring, fusion, reranking and truncation call
\* neither the embedder nor the vector store.
C12_OneEmbedOneQuery ==
  [][\A c \in Calls :
       /\ embed_calls'[c] <= 1 /\ index_calls'[c] <= 1 /\ store_calls'[c] <= 1
       /\ index_calls'[c] # index_calls[c] => embed_calls[c] = 1 /\ pc[c] = "index"
       /\ embed_calls'[c] # embed_calls[c] => index_calls[c] = 0 /\ pc[c] = "embed"
       /\ pc'[c] \in ScoringStages \cup {"enrich", "done"} =>
            embed_calls'[c] = 1 /\ index_calls'[c] = 1
       /\ pc'[c] = "error" =>
            /\ embed_calls'[c] = 1
            /\ index_calls'[c] = (IF error'[c] \in {"ValueError", "EmbeddingError"} THEN 0 ELSE 1)
       /\ pc[c] \in ScoringStages =>
            /\ embed_calls'[c] = embed_calls[c]
            /\ index_calls'[c] = index_calls[c]
            /\ store_calls'[c] = store_calls[c]]_vars

\* one invocation returned a ranking, another ended with the failure of its
\* index query, each after one embedding and one index query
C12_Witness ==
  \E c, d \in Calls :
    /\ Returned(c) /\ results[c] # <<>> /\ embed_calls[c] = 1 /\ index_calls[c] = 1
    /\ pc[d] = "error" /\ error[d] = "IndexError" /\ embed_calls[d] = 1 /\ index_calls[d] = 1

\* the similarities of the stored vectors to the query vector of invocation c
Similarities(c) ==
  [i \in 1..Len(vectors) |-> CosineSimilarity(query_vector[c], vectors[i])]

Min2(a, b) ==
  IF a <= b THEN a ELSE b

PoolChunks(c) ==
  {pool[c][i].chunk : i \in 1..Len(pool[c])}

\* C13: the vector store is asked for 2 * top_k neighbours: the pool is the
\* 2 * top_k most similar stored chunks (those of positive similarity), and
\* keyword scores, the fused list, the reranked list and the results hold
\* candidates of that pool only.
C13_OverFetch ==
  \A c \in Calls :
    /\ pc[c] \in InFlightAfterIndex =>
         /\ pool[c] = StoreSearch(query_vector[c], chunks, vectors, 2 * config.top_k)
         /\ config.top_k >= 0 =>
              /\ Len(pool[c]) = Min2(2 * config.top_k,
                                     Cardinality({i \in 1..Len(vectors) : RLt(Zero, Similarities(c)[i])}))
              /\ \A i \in 1..Len(pool[c]) :
                   Cardinality({j \in 1..Len(vectors) :
                                  RLt(pool[c][i].score, Similarities(c)[j])}) < 2 * config.top_k
    /\ DOMAIN keyword_scores[c] \subseteq PoolChunks(c)
    /\ Len(semantic_results[c]) = Len(pool[c])
    /\ Len(combined_results[c]) \in {0, Len(pool[c])}
    /\ \A i \in 1..Len(combined_results[c]) : combined_results[c][i].chunk \in PoolChunks(c)
    /\ \A i \in 1..Len(results[c]) : results[c][i].chunk \in PoolChunks(c)

\* a search returned results from a pool of exactly 2 * top_k candidates,
\* taken from a store that holds more chunks of positive similarity
C13_Witness ==
  \E c \in Calls :
    /\ pc[c] \in {"enrich", "done"}
    /\ config.top_k >= 1
    /\ Len(pool[c]) = 2 * config.top_k
    /\ Len(seen[c].chunks) > 2 * config.top_k
    /\ seen[c] = [version |-> version, chunks |-> chunks]
    /\ Cardinality({i \in 1..Len(vectors) : RLt(Zero, Similarities(c)[i])}) > 2 * config.top_k
    /\ results[c] # <<>>

\* what the vector store returned for a candidate
Raw(r) ==
  <<r.chunk, r.score, r.metadata.similarity>>

CountOf(list, t) ==
  Cardinality({i \in 1..Len(list) : Raw(list[i]) = t})

\* list holds the candidates of raw_pool, each as often, as the store returned them
SameCandidates(list, raw_pool) ==
  /\ Len(list) = Len(raw_pool)
  /\ \A i \in 1..Len(list) : CountOf(list, Raw(list[i])) = CountOf(raw_pool, Raw(list[i]))

DerivedFields ==
  {"semantic_score", "keyword_score", "combined_score"}

\* C14: HybridSearch.search leaves every retrieved candidate as the vector
\* store returned it: its chunk (content and chunk metadata), its raw score
\* and its similarity entry are unchanged at every stage, the store is not
\* written, and the only fields written are semantic_score, keyword_score
\* and combined_score.
C14_CandidatesUnmodified ==
  [][\A c \in Calls :
       /\ (pc[c] \in {"embed", "index"} \cup ScoringStages /\ pc'[c] # pc[c]) =>
            /\ chunks' = chunks /\ vectors' = vectors
            /\ nav' = nav /\ related' = related /\ site_cache' = site_cache
       /\ pc'[c] \in ScoringStages \cup {"enrich", "done"} =>
            /\ \A i \in 1..Len(pool'[c]) : Raw(semantic_results'[c][i]) = Raw(pool'[c][i])
            /\ Len(semantic_results'[c]) = Len(pool'[c])
            /\ pc'[c] \in {"rerank", "truncate", "enrich", "done"} =>
                 SameCandidates(combined_results'[c], pool'[c])
            /\ \A i \in 1..Len(results'[c]) :
                 CountOf(results'[c], Raw(results'[c][i])) <= CountOf(pool'[c], Raw(results'[c][i]))
            /\ \A i \in 1..Len(combined_results'[c]) :
                 DOMAIN combined_results'[c][i].metadata \subseteq {"similarity"} \cup DerivedFields
            /\ \A i \in 1..Len(semantic_results'[c]) :
                 DOMAIN semantic_results'[c][i].metadata \subseteq {"similarity"} \cup DerivedFields]_vars

\* a search reranked and returned two candidates whose combined_score
\* differs from the raw score the store gave them
C14_Witness ==
  \E c \in Calls :
    /\ Returned(c)
    /\ config.rerank
    /\ Len(results[c]) >= 2
    /\ \A i \in 1..Len(results[c]) :
         /\ Key(results[c][i]) # results[c][i].score
         /\ \E j \in 1..Len(pool[c]) : Raw(pool[c][j]) = Raw(results[c][i])

\* C15: candidates of equal final combined_score appear in the result in
\* the relative order in which the vector store returned them, with or
\* without reranking.
C15_TiesKeepPoolOrder ==
  \A c \in Calls :
    Returned(c) =>
      \A i, j \in 1..Len(results[c]) :
        (i < j /\ Key(results[c][i]) = Key(results[c][j])
               /\ Raw(results[c][i]) # Raw(results[c][j]))
        => \E p, q \in 1..Len(pool[c]) :
             /\ p < q
             /\ Raw(pool[c][p]) = Raw(results[c][i])
             /\ Raw(pool[c][q]) = Raw(results[c][j])

\* the combined_score a ranked candidate had after fusion, from the scores
\* kept in its metadata
FusedScore(r) ==
  RAdd(RMul(config.semantic_weight, r.metadata.semantic_score),
       RMul(config.keyword_weight, r.metadata.keyword_score))

\* what reranking added to a candidate apart from the position boost
ContextBoost(r, q) ==
  RSub(RSub(Key(r), FusedScore(r)),
       RMul(PositionBoost(Lower(ChunkContent(r.chunk)), Range(Split(Lower(q)))), <<1, 10>>))

\* the chunk's metadata holds a site_common dict, navigation links or a url
CarriesSiteContext(ch) ==
  \/ ChunkSiteCommon(ch)
  \/ ch \in nav
  \/ Truthy(ChunkUrl(ch))

\* C16: reranking adds a context boost of exactly 0.25 to a candidate that
\* carries site-context metadata when the query is a site query, exactly
\* 0.15 when it is not, never 0.40, and nothing to a candidate without such
\* metadata.
C16_ContextBoost ==
  [][\A c \in Calls :
       (pc[c] = "rerank" /\ pc'[c] = "truncate") =>
         \A i \in 1..Len(combined_results'[c]) :
           LET r     == combined_results'[c][i]
               boost == ContextBoost(r, query[c])
           IN  /\ boost # <<2, 5>>
               /\ boost = (IF CarriesSiteContext(r.chunk)
                           THEN (IF IsSiteQuery(query[c]) THEN <<1, 4>> ELSE <<3, 20>>)
                           ELSE Zero)]_vars

\* a site query was reranked: a candidate with a url got 0.25 and one
\* without site context got nothing; a query that is not a site query was
\* reranked: a candidate with navigation links got 0.15
C16_Witness ==
  \E c, d \in Calls :
    /\ Returned(c) /\ Returned(d) /\ config.rerank
    /\ IsSiteQuery(query[c]) /\ ~IsSiteQuery(query[d])
    /\ \E i, j \in 1..Len(combined_results[c]) :
         /\ Truthy(ChunkUrl(combined_results[c][i].chunk))
         /\ ContextBoost(combined_results[c][i], query[c]) = <<1, 4>>
         /\ ~CarriesSiteContext(combined_results[c][j].chunk)
         /\ ContextBoost(combined_results[c][j], query[c]) = Zero
    /\ \E i \in 1..Len(combined_results[d]) :
         /\ combined_results[d][i].chunk \in nav
         /\ ContextBoost(combined_results[d][i], query[d]) = <<3, 20>>

\* the stages at which keyword_scores holds the outcome of _keyword_search
AfterKeyword ==
  {"combine", "rerank", "truncate", "enrich", "done"}

\* the expanded terms that occur in the lower-cased content of chunk ch
TermsInContent(c, ch) ==
  {t \in ExpandedTerms(query[c], semantic_results[c]) : Contains(Lower(ChunkContent(ch)), t)}

\* C17: a candidate whose lower-cased content contains none of the expanded
\* terms gets keyword score 0, whatever its file_name and url hold.
C17_NoContentMatchGivesZero ==
  \A c \in Calls :
    pc[c] \in AfterKeyword =>
      \A ch \in DOMAIN keyword_scores[c] :
        TermsInContent(c, ch) = {} => keyword_scores[c][ch] = Zero

\* C18: for a candidate with at least one expanded term in its content the
\* keyword score is 0.5*(contentMatches/n) + 0.3*min(contentFrequency/(5n), 1)
\* + min(metadataMatches/n, 0.3), with contentMatches the number of terms
\* occurring in the content, contentFrequency the sum of their occurrence
\* counts in the content and metadataMatches the occurrence count of the
\* terms in the file_name and url text.
C18_KeywordFormula ==
  \A c \in Calls :
    pc[c] \in AfterKeyword =>
      \A ch \in DOMAIN keyword_scores[c] :
        LET terms   == ExpandedTerms(query[c], semantic_results[c])
            n       == Cardinality(terms)
            content == Lower(ChunkContent(ch))
            contentMatches   == Cardinality(TermsInContent(c, ch))
            contentFrequency == SumOver(terms, [t \in terms |-> Count(content, t)], 0)
            metadataMatches  == SumOver(terms, [t \in terms |-> Count(MetadataText(ch), t)], 0)
        IN  TermsInContent(c, ch) # {} =>
              keyword_scores[c][ch] =
                RAdd(RAdd(RMul(<<1, 2>>, Rat(contentMatches, n)),
                          RMul(<<3, 10>>, RMin(Rat(contentFrequency, 5 * n), One))),
                     RMin(Rat(metadataMatches, n), <<3, 10>>))

\* the query has no whitespace-delimited token longer than one character
NoLongToken(q) ==
  \A i \in 1..Len(Split(Lower(q))) : Len(Split(Lower(q))[i]) <= 1

\* C19: when the query has no token longer than one character (empty,
\* blank, or one-character tokens only), _keyword_search returns no score
\* without scanning any candidate: every keyword_score is 0 and a malformed
\* candidate in the pool raises nothing.
C19_NoTermsNoScan ==
  \A c \in Calls :
    /\ pc[c] \in AfterKeyword =>
         /\ \A q \in {<<>>, T_blank, T_a, T_a \o T_sp \o T_a} :
              KeywordSearch(q, semantic_results[c]) = [raised |-> FALSE, scores |-> EmptyDict]
         /\ NoLongToken(query[c]) =>
              /\ keyword_scores[c] = EmptyDict
              /\ pc[c] # "combine" =>
                   /\ Len(combined_results[c]) = Len(pool[c])
                   /\ \A i \in 1..Len(combined_results[c]) :
                        combined_results[c][i].metadata.keyword_score = Zero
    /\ (pc[c] = "error" /\ error[c] = "AttributeError") => ~NoLongToken(query[c])

\* a search for "a" returned results of keyword_score 0 from a pool that
\* holds a candidate whose content contains "a" and a malformed candidate
C19_Witness ==
  \E c \in Calls :
    /\ Returned(c)
    /\ query[c] = T_a
    /\ \E i \in 1..Len(pool[c]) : Malformed(pool[c][i].chunk)
    /\ \E i \in 1..Len(pool[c]) : Contains(Lower(ChunkContent(pool[c][i].chunk)), T_a)
    /\ results[c] # <<>>
    /\ \A i \in 1..Len(results[c]) : results[c][i].metadata.keyword_score = Zero

\* the original tokens of the query of invocation c
OriginalTokens(c) ==
  {t \in Range(Split(Lower(query[c]))) : Len(t) > 1}

\* the terms that expansion always adds by name
LiteralTerms ==
  {T_pdf, T_sample, T_sample3pp}

\* the terms added from the file names found in candidates' content
FileNameTerms(c) ==
  ExpandedTerms(query[c], semantic_results[c]) \ (OriginalTokens(c) \cup LiteralTerms)

\* the names of the first three file references of a content
FirstThreeNames(content) ==
  LET refs == FindAllPdf(Lower(content))
  IN  {PdfName(refs[i]) : i \in {j \in 1..Len(refs) : j <= 3}}

\* C20: the expanded term set contains every original query token, and
\* the terms it adds from file names are at most three per candidate of the
\* pool, taken from the first three file references of that candidate.
C20_ExpansionBounded ==
  \A c \in Calls :
    (pc[c] \in AfterKeyword /\ ~NoLongToken(query[c])) =>
      /\ OriginalTokens(c) \subseteq ExpandedTerms(query[c], semantic_results[c])
      /\ Cardinality(FileNameTerms(c)) <= 3 * Len(pool[c])
      /\ FileNameTerms(c) \subseteq
           UNION {FirstThreeNames(ChunkContent(pool[c][i].chunk)) : i \in 1..Len(pool[c])}

\* a query containing "pdf" was scored on a pool whose only candidate names
\* four files: exactly three names were added to the terms
C20_Witness ==
  \E c \in Calls :
    /\ Returned(c)
    /\ Contains(Lower(query[c]), T_pdf)
    /\ Len(pool[c]) = 1
    /\ Len(FindAllPdf(Lower(ChunkContent(pool[c][1].chunk)))) = 4
    /\ Cardinality(FileNameTerms(c)) = 3
    /\ OriginalTokens(c) # {}

\* the file references found in the lower-cased content of the candidates
\* of the pool of invocation c
PoolFileRefs(c) ==
  UNION {Range(FindAllPdf(Lower(ChunkContent(pool[c][i].chunk)))) : i \in 1..Len(pool[c])}

\* C21: terms are added to the original tokens only when a token of the
\* query is a file-reference token (one holding "pdf"), and every added term
\* is a file reference found in the content of a candidate of the pool, or
\* the name of such a reference.
C21_ExpansionFromCandidates ==
  \A c \in Calls :
    (pc[c] \in AfterKeyword /\ ~NoLongToken(query[c])) =>
      LET added == ExpandedTerms(query[c], semantic_results[c]) \ OriginalTokens(c)
      IN  /\ added # {} => \E t \in OriginalTokens(c) : Contains(t, T_pdf)
          /\ \A t \in added :
               \E ref \in PoolFileRefs(c) : t = ref \/ t = PdfName(ref)

\* no candidate of the pool with another content than text names a file
OnlyTextNamesFiles(c, text) ==
  \A i \in 1..Len(pool[c]) :
    ChunkContent(pool[c][i].chunk) # text =>
      FindAllPdf(Lower(ChunkContent(pool[c][i].chunk))) = <<>>

\* C22 as stated: for the query "sample pdf" and a candidate with content
\* "Download sample-3pp.pdf here" the expanded terms hold "sample",
\* "sample-3pp" and "pdf", at least 2 terms match the content and the
\* keyword score is above 0.5 * 2/3, whatever else the pool holds.
C22_SampleExampleAnyPool ==
  \A c \in Calls :
    (pc[c] \in AfterKeyword /\ query[c] = T_samplepdf) =>
      LET ok(ch) ==
            /\ {T_sample, T_sample3pp, T_pdf} \subseteq ExpandedTerms(query[c], semantic_results[c])
            /\ Cardinality(TermsInContent(c, ch)) >= 2
            /\ RLt(<<1, 3>>, keyword_scores[c][ch])
      IN  \A ch \in DOMAIN keyword_scores[c] :
            ChunkContent(ch) = T_download => ok(ch)

\* C22: for the query "sample pdf" and a candidate with content
\* "Download sample-3pp.pdf here", in a pool where no candidate with another
\* content names a file, the expanded terms hold "sample", "sample-3pp" and
\* "pdf", at least 2 terms match the content and the keyword score is above
\* 0.5 * 2/3.
C22_SampleExample ==
  \A c \in Calls :
    (pc[c] \in AfterKeyword /\ query[c] = T_samplepdf /\ OnlyTextNamesFiles(c, T_download)) =>
      LET ok(ch) ==
            /\ {T_sample, T_sample3pp, T_pdf} \subseteq ExpandedTerms(query[c], semantic_results[c])
            /\ Cardinality(TermsInContent(c, ch)) >= 2
            /\ RLt(<<1, 3>>, keyword_scores[c][ch])
      IN  \A ch \in DOMAIN keyword_scores[c] :
            ChunkContent(ch) = T_download => ok(ch)

\* "sample pdf" was scored on a pool of the download chunk and two chunks
\* that name no file: the download chunk scored 0.56
C22_Witness ==
  \E c \in Calls :
    /\ Returned(c)
    /\ query[c] = T_samplepdf
    /\ Len(pool[c]) = 3
    /\ OnlyTextNamesFiles(c, T_download)
    /\ \E ch \in DOMAIN keyword_scores[c] :
         /\ ChunkContent(ch) = T_download
         /\ keyword_scores[c][ch] = <<14, 25>>

\* C23: reranking treats a query as a site query exactly when "site" or
\* "this" is one of the whitespace-delimited tokens of the lower-cased
\* query: a candidate that carries site-context metadata gets 0.25 for such
\* a query and 0.15 for every other query.
C23_SiteQueryByToken ==
  [][\A c \in Calls :
       (pc[c] = "rerank" /\ pc'[c] = "truncate") =>
         LET tokens   == Range(Split(Lower(query[c])))
             site_tok == T_site \in tokens \/ T_this \in tokens
         IN  \A i \in 1..Len(combined_results'[c]) :
               LET r == combined_results'[c][i]
               IN  CarriesSiteContext(r.chunk) =>
                     ContextBoost(r, query[c]) = (IF site_tok THEN <<1, 4>> ELSE <<3, 20>>)]_vars

\* C24: reranking adds to the fused score, apart from the context boost,
\* 0.1 * the sum of 1/(1 + pos/100) over the query terms (tokens of the
\* lower-cased query of length > 1) found in the lower-cased content, pos
\* being the offset of the first occurrence; other tokens add nothing.
C24_PositionBoostOverQueryTerms ==
  [][\A c \in Calls :
       (pc[c] = "rerank" /\ pc'[c] = "truncate") =>
         \A i \in 1..Len(combined_results'[c]) :
           LET r       == combined_results'[c][i]
               context == SiteContextBoost(CarriesSiteContext(r.chunk), IsSiteQuery(query[c]))
               added   == RSub(RSub(Key(r), FusedScore(r)), context)
           IN  added = RMul(<<1, 10>>,
                            PositionBoost(Lower(ChunkContent(r.chunk)), OriginalTokens(c)))]_vars

\* C26: the results of a search are an injective selection from the pool
\* the vector store returned for the call (each result is a retrieved
\* candidate, none taken twice), and the list fusion and reranking leave
\* before truncation is a permutation of the pool.
C26_InjectiveSelection ==
  \A c \in Calls :
    LET selection(list) ==
          \E f \in [1..Len(list) -> 1..Len(pool[c])] :
            /\ \A i, j \in 1..Len(list) : f[i] = f[j] => i = j
            /\ \A i \in 1..Len(list) : Raw(list[i]) = Raw(pool[c][f[i]])
    IN  /\ selection(results[c])
        /\ (pc[c] \in {"rerank", "truncate", "enrich", "done"} /\ error[c] = "none") =>
             /\ Len(combined_results[c]) = Len(pool[c])
             /\ selection(combined_results[c])

\* a reranked search with keyword matches returned top_k = 2 results out
\* of a pool of more than two candidates
C26_Witness ==
  \E c \in Calls :
    /\ Returned(c) /\ error[c] = "none" /\ config.rerank
    /\ Len(pool[c]) > 2
    /\ Len(results[c]) = 2
    /\ Len(combined_results[c]) = Len(pool[c])
    /\ \E ch \in DOMAIN keyword_scores[c] : keyword_scores[c][ch] # Zero
    /\ \E ch \in DOMAIN keyword_scores[c] : keyword_scores[c][ch] = Zero

\* C27: the chunk list and the vector list of InMemoryVectorStore have the
\* same length, the vector at index i is the embedding of the chunk at
\* index i, and get_count is the number of stored vectors.
C27_StoreAligned ==
  /\ Len(chunks) = Len(vectors)
  /\ \A i \in 1..Len(chunks) :
       i <= Len(vectors) => vectors[i] = ProviderEmbed(ChunkContent(chunks[i]))
  /\ GetCount = Len(vectors)

\* C28: with chunk_size > 0 and chunk_overlap >= 0 the start offset of
\* FixedChunker.chunk strictly increases on every iteration of its loop
\* (so the loop ends and finitely many chunks are produced).
C28_StartIncreases ==
  [][(/\ chunker.pc = "loop" /\ chunker'.pc = "loop" /\ chunker'.idx = chunker.idx + 1
      /\ chunker.chunk_size > 0 /\ chunker.chunk_overlap >= 0) =>
       chunker'.start > chunker.start]_vars

\* C29: get_loader returns the first registered loader whose can_load
\* accepts the path, every default loader is selected for some path, and a
\* ".txt" file whose path contains "processed" goes to HtmlLoader.
C29_LoaderDispatch ==
  /\ \A k \in 1..Len(factory.selected) :
       LET file_path == factory.selected[k].file_path
           loader    == factory.selected[k].loader
       IN  /\ \E i \in 1..Len(factory.loaders) :
                /\ factory.loaders[i] = loader
                /\ CanLoad(loader, file_path)
                /\ \A j \in 1..(i - 1) : ~CanLoad(factory.loaders[j], file_path)
           /\ (PathSuffix(file_path) = T_dottxt /\ Contains(file_path, T_processed)) =>
                loader = "HtmlLoader"
  /\ factory.pc # "idle" =>
       \A i \in 1..Len(DefaultLoaders) :
         \E file_path \in FilePaths : GetLoader(factory.loaders, file_path) = DefaultLoaders[i]

\* C30: a failing batch upsert does not abort the upload: each point of a
\* failed batch is upserted on its own exactly once, every batch is
\* attempted (once the upload is over every point was in one batch upsert),
\* no point is counted more than once and uploaded_count never exceeds the
\* number of prepared points.
C30_FailedBatchRetried ==
  LET n == qdrant.points
  IN  /\ \A p \in 1..n :
           /\ qdrant.counted[p] <= 1
           /\ qdrant.batch_upserts[p] = (IF p <= qdrant.i \/ qdrant.pc = "done" THEN 1 ELSE 0)
           /\ qdrant.point_upserts[p] = (IF p \in qdrant.failed THEN 1 ELSE 0)
           /\ (qdrant.counted[p] = 1 /\ p \in qdrant.failed) => qdrant.point_upserts[p] = 1
      /\ qdrant.uploaded_count = Cardinality({p \in 1..n : qdrant.counted[p] = 1})
      /\ qdrant.uploaded_count <= n

\* an upload is over in which the first batch failed, one of its points was
\* recovered and one was not, and a later batch went through
C30_Witness ==
  /\ qdrant.pc = "done"
  /\ qdrant.points > BatchSize
  /\ 1 \in qdrant.failed
  /\ \E p, r \in qdrant.failed : qdrant.counted[p] = 1 /\ qdrant.counted[r] = 0
  /\ \E p \in 1..qdrant.points : p \notin qdrant.failed /\ qdrant.counted[p] = 1

\* invocation c returned with the weights 0.7 / 0.3, top_k = 2, reranking
\* off, from a pool of a candidate A (similarity 0.55, keyword score 0)
\* followed by a candidate B (similarity 0.50, keyword score 1)
CloseSimilarities(c) ==
  /\ Returned(c)
  /\ config.semantic_weight = <<7, 10>> /\ config.keyword_weight = <<3, 10>>
  /\ config.top_k = 2 /\ ~config.rerank
  /\ Len(pool[c]) = 2
  /\ pool[c][1].score = <<11, 20>> /\ pool[c][2].score = <<1, 2>>
  /\ DictGet(keyword_scores[c], pool[c][1].chunk, Zero) = Zero
  /\ DictGet(keyword_scores[c], pool[c][2].chunk, Zero) = One

\* C25 as stated: with weights 0.7 / 0.3, top_k = 2, reranking off and a
\* pool of A (similarity 0.55, keyword score 0) and B (similarity 0.50,
\* keyword score 1.0), B is ranked above A in the result.
C25_LexicalFlipsOrder ==
  \A c \in Calls :
    CloseSimilarities(c) =>
      /\ Len(results[c]) = 2
      /\ results[c][1].chunk = pool[c][2].chunk
      /\ results[c][2].chunk = pool[c][1].chunk

\* C25: with weights 0.7 / 0.3, top_k = 2, reranking off and a pool of A
\* (similarity 0.55, keyword score 0) and B (similarity 0.50, keyword score
\* 1.0), the lexical signal does not flip the semantic order: A is ranked
\* above B in the result, with combined scores 0.7 and 0.3.
C25_SemanticOrderKept ==
  \A c \in Calls :
    CloseSimilarities(c) =>
      /\ Len(results[c]) = 2
      /\ results[c][1].chunk = pool[c][1].chunk
      /\ results[c][2].chunk = pool[c][2].chunk
      /\ Key(results[c][1]) = <<7, 10>>
      /\ Key(results[c][2]) = <<3, 10>>

\* such a search returned: A is the chunk "pet", B the chunk that names
\* "sample-3pp.pdf", the query is "sample pdf"
C25_Witness ==
  \E c \in Calls :
    /\ CloseSimilarities(c)
    /\ query[c] = T_samplepdf
    /\ ChunkContent(pool[c][1].chunk) = T_pet
    /\ ChunkContent(pool[c][2].chunk) = T_samplerefs
    /\ Len(results[c]) = 2

====
